---- MODULE Spec2Model ----
(***************************************************************************)
(* CX2388x SDR capture driver: the DMA page ring written by the device and *)
(* the read() protocol of cx88_sdr_v4l2.c that consumes it.                *)
(*                                                                         *)
(* The device executes the RISC program built by                           *)
(* cx88sdr_make_risc_instructions one instruction at a time: two Writes    *)
(* fill page MO_VBI_GPCNT, the second increments the counter (resets it on *)
(* the last page).  cx88sdr_open records initial_page, cx88sdr_read maps   *)
(* *pos onto a page, compares it with the normalised counter, copies and   *)
(* zeroes.  The driver takes no lock: the device, every access to a       *)
(* register or to dev->initial_page, and every byte of copy_to_user and    *)
(* memset are separate steps that interleave freely, those of the open and *)
(* release of any file handle included.  An access through what            *)
(* cx88sdr_remove has unmapped or freed has every outcome: a fault, a lost *)
(* write, any value read.                                                  *)
(*                                                                         *)
(* The geometry is scaled down: PAGE_SIZE = 2^PAGE_SHIFT and               *)
(* VBI_DMA_SIZE = 2^DMA_SIZE_SHIFT keep the source's power-of-two shape    *)
(* (4096 and 64 MiB there).  uint32_t values are kept at their full width  *)
(* as two 16-bit limbs <<hi, lo>>.                                         *)
(*                                                                         *)
(* SpecSetup follows cx88sdr_probe of cx88_sdr_core.c step by step, with   *)
(* its error unwinding and cx88sdr_remove, stores the instruction words    *)
(* as the builder computes them, and lets the device decode and execute    *)
(* them one instruction at a time.  CLUSTER_BUF_SIZE = 2^CLUSTER_SHIFT and *)
(* the interrupt period 2^IRQ_SHIFT are scaled with the pages.             *)
(*                                                                         *)
(* SpecLife joins the two: probe, sessions, control changes and            *)
(* cx88sdr_remove at any moment, also under an open handle.  SpecMulti is  *)
(* the session with other handles opened and released at any moment,      *)
(* SpecLive the free-running device with a fairly scheduled reader.        *)
(* SpecSize follows the sizing of the instruction buffer and the stores of *)
(* the builder with the source's own byte counts.                          *)
(***************************************************************************)
EXTENDS Integers, Sequences, FiniteSets, TLC

(* ------------------------------ bounds -------------------------------- *)

\* log2 of the page size (12 in the kernel build)
PAGE_SHIFT == 1

\* log2 of VBI_DMA_SIZE (26 in cx88_sdr.h: 64 * 1024 * 1024)
DMA_SIZE_SHIFT == 3

\* pages the device may complete after the session was opened
MaxCompleted == 4

\* times the session's file handle may be opened
MaxSessions == 2

\* pages the device may complete in SpecLife
LifePages == 1

\* SpecLife: the longest read, the furthest a session's offset is followed,
\* and how far from the lowest free frame an allocation may lie
LifeSize == 2
LifePos == 2
LifeScatter == 0

\* SpecMulti: pages the device completes, the longest read and the furthest
\* offset
MultiPages == 1
MultiSize == 2
MultiPos == 2

\* SpecLive: the longest read and the furthest offset
LiveSize == 2
LivePos == 4

\* bytes of freed memory a session is followed through
MaxJunk == 1

\* values read through the removed register mapping a session is followed
\* through
MaxUnmapped == 1

\* largest byte value (255 in the build): the samples of the scaled ring are
\* 1 .. VBI_DMA_SIZE
MaxByte == 9

\* largest size passed to read()
MaxSize == 3

\* largest file offset a read may reach
MaxPos == 10

\* file handles that may be open besides the reading one
MaxOthers == 1

\* the largest value a read through the removed register mapping gives
MaxRaw == 7

\* log2 of CLUSTER_BUF_SIZE (11 in cx88_sdr.h: 2048, half a 4 KiB page)
CLUSTER_SHIFT == 0

\* log2 of the interrupt period (9 in cx88sdr_make_risc_instructions: 0x1ff)
IRQ_SHIFT == 1

(* ----------------------------- constants ------------------------------ *)

EFAULT == 14

ENOMEM == 12

ENODEV == 19

\* CX_SRAM_BASE of cx88_sdr.h, 0x180000
CX_SRAM_BASE == 1572864

\* CLUSTER_BUF_NUM of cx88_sdr.h
CLUSTER_BUF_NUM == 8

\* CLUSTER_BUF_SIZE of cx88_sdr.h, unscaled
ClusterBytes == 2048

\* VBI_DMA_SIZE of cx88_sdr.h, unscaled
DmaBytes == 64 * 1024 * 1024

\* sizeof(uint32_t), what *pp++ advances by
WORD == 4

\* PAGE_SHIFT of the kernel builds: 4, 8, 16 and 64 KiB pages
BuildPageShifts == {12, 13, 14, 16}

LIMB == 65536

PAGE_SIZE == 2 ^ PAGE_SHIFT

VBI_DMA_SIZE == 2 ^ DMA_SIZE_SHIFT

VBI_DMA_PAGES == VBI_DMA_SIZE \div (2 ^ PAGE_SHIFT)

Pages == 0 .. (VBI_DMA_PAGES - 1)

Offsets == 0 .. (PAGE_SIZE - 1)

VARIABLES
    gpcnt,          \* MO_VBI_GPCNT: index of the page the device is writing
    mem,            \* pgvec_virt: page -> offset -> byte
    initial_page,   \* dev->initial_page, uint32 as <<hi, lo>>
    pos,            \* *pos, the file offset (loff_t)
    pc,             \* where the session's file handle stands: "closed";
                    \* inside cx88sdr_open "open_alloc" (entered),
                    \* "open_read" (fh allocated), "open_store" (counter
                    \* read) and "open_unmask" (dev->initial_page stored);
                    \* "idle";
                    \* inside cx88sdr_read "sample" (pnum computed), "loop"
                    \* (at the test of the inner loop), "copy" (inside
                    \* copy_to_user), "memset" (inside memset), "advance"
                    \* (memset done); "returned"; "oops" (the call died on
                    \* an access through a NULL fh, the unmapped registers
                    \* or freed memory)
    nonblock,       \* file->f_flags & O_NONBLOCK of the call
    size,           \* remaining size
    result,         \* result
    gp_cnt,         \* gp_cnt, the normalised sample of the counter
    pnum,           \* pnum
    moved,          \* bytes of the chunk copy_to_user or memset has done
    buf,            \* bytes copy_to_user delivered in this call: <<page, offset, byte>>
    ret,            \* value the last call returned
    others,         \* other file handles open on the device
    opening,        \* cx88sdr_open in progress: raw, the counter as the
                    \* session's open read it; oraw and oat, the same and
                    \* the position ("none", "alloc", "read", "store",
                    \* "unmask") for the open of another file handle
    card,           \* the card as probe set it up, see CardFresh
    emit,           \* the instruction buffer being sized and filled, see
                    \* NoEmit
    h               \* history of the session, read by the properties only:
                    \*   completed  pages the device completed since open
                    \*   rawOpen    MO_VBI_GPCNT as cx88sdr_open read it
                    \*   rawSampled MO_VBI_GPCNT as the call last read it
                    \*   pos0, size0, pnum0, gp0  *pos, size, pnum, gp_cnt at entry
                    \*   nsamples   1 after the entry sample, then 2 and 3 in
                    \*              turn for the samples of the wait loop
                    \*   ncopies    copy sub-steps of the call
                    \*   raced      a copy touched the page the device was writing
                    \*   oncursor   a copy was taken with pnum = gp_cnt
                    \*   consumed, zeroed  bytes delivered / memset since open
                    \*   faulted    copy_to_user failed in the call
                    \*   sincesample  copy sub-steps since the counter was last read
                    \*   psample    pnum when the counter was last read
                    \*   stale      a copy compared against a sample older than
                    \*              the previous copy
                    \*   sessions   times the session's file handle was opened
                    \*   junk       bytes delivered from freed memory
                    \*   unmapped   values read through the removed register
                    \*              mapping
                    \*   total      pages the device completed since probe
                    \*              (counted by DeviceLife only)

vars == <<gpcnt, mem, initial_page, pos, pc, nonblock, size, result, gp_cnt,
          pnum, moved, buf, ret, others, opening, card, emit, h>>

\* what belongs to the reading session
session == <<initial_page, pos, pc, nonblock, size, result, gp_cnt, pnum, moved,
             buf, ret, others, opening, emit, h>>

\* the same without the history
reader == <<initial_page, pos, pc, nonblock, size, result, gp_cnt, pnum, moved,
            buf, ret, others, opening, emit>>

(* ------------------------- pure computations -------------------------- *)

\* the sample the ADC stores at a ring location (never 0, one tag per byte)
Sample(p, o) == p * PAGE_SIZE + o + 1

\* two pages behind the counter: one page behind the last written page
U32DecTwo(v) == IF v = 0 THEN <<LIMB - 1, LIMB - 2>>
                ELSE IF v = 1 THEN <<LIMB - 1, LIMB - 1>> ELSE <<0, v - 2>>

\* uint32 v - 1 for a counter value v < 2^16: 0 - 1 wraps to 2^32 - 1
U32Dec(v) == IF v = 0 THEN <<LIMB - 1, LIMB - 1>> ELSE <<0, v - 1>>

\* (u + k) % n for a uint32 u and 0 <= k, evaluated without overflow as the
\* 64-bit arithmetic of the source does; limb-wise because of TLC's int range
AddMod(u, k, n) == ((u[1] % n) * (LIMB % n) + (u[2] % n) + (k % n)) % n

\* the same sum with initial_page taken as a signed 32-bit value and C's
\* remainder, which has the sign of the dividend
PageIndexSigned(ip, p) ==
    LET k == (p % VBI_DMA_SIZE) \div (2 ^ PAGE_SHIFT)
        v == IF ip[1] >= LIMB \div 2 THEN (ip[1] - LIMB) * LIMB + ip[2] + k
             ELSE ip[2] + k
    IN  IF v < 0 THEN 0 - ((0 - v) % VBI_DMA_PAGES) ELSE v % VBI_DMA_PAGES

\* (initial_page + ((*pos % VBI_DMA_SIZE) >> PAGE_SHIFT)) % VBI_DMA_PAGES
PageIndex(ip, p) ==
    AddMod(ip, (p % VBI_DMA_SIZE) \div (2 ^ PAGE_SHIFT), VBI_DMA_PAGES)

\* the decrement without the wrap case
NormalizeNoWrap(raw) == raw - 1

\* gp_cnt = (!gp_cnt) ? (VBI_DMA_PAGES - 1) : (gp_cnt - 1)
Normalize(raw) == IF raw = 0 THEN VBI_DMA_PAGES - 1 ELSE raw - 1

\* a chunk that ignores where in the page the cursor stands
ChunkLenWholePage(p, sz) == IF PAGE_SIZE > sz THEN sz ELSE PAGE_SIZE

\* len = (*pos % PAGE_SIZE) ? (PAGE_SIZE - (*pos % PAGE_SIZE)) : PAGE_SIZE;
\* if (len > size) len = size
ChunkLen(p, sz) ==
    LET full == IF p % PAGE_SIZE # 0 THEN PAGE_SIZE - (p % PAGE_SIZE) ELSE PAGE_SIZE
    IN  IF full > sz THEN sz ELSE full

\* the byte at pgvec_virt[p] + o; past the end of the page it is not ring data
ByteAt(m, p, o) == IF o \in Offsets THEN m[p][o] ELSE -1

\* a memset of the rest of the page
ZeroedToPageEnd(m, p, o, len) ==
    [m EXCEPT ![p] = [x \in Offsets |-> IF x >= o THEN 0 ELSE m[p][x]]]

\* memset(pgvec_virt[p] + o, 0, len)
Zeroed(m, p, o, len) ==
    [m EXCEPT ![p] = [x \in Offsets |-> IF x >= o /\ x < o + len THEN 0 ELSE m[p][x]]]

\* a loop that copies whenever bytes are wanted, without looking at the producer
CanCopyNoWait(sz, pn, gp) == sz > 0

\* inner loop condition: (size > 0) && (pnum != gp_cnt)
CanCopy(sz, pn, gp) == sz > 0 /\ pn # gp

\* if ((pnum == gp_cnt) && (file->f_flags & O_NONBLOCK)) return result
EarlyOut(pn, gp, nb) == pn = gp /\ nb

\* a stall that gives up in either mode
StalledAnyMode(sz, pn, gp, nb) == sz > 0 /\ pn = gp

\* a stall that never gives up
StalledNever(sz, pn, gp, nb) == FALSE

\* after the inner loop: if (size) { if (file->f_flags & O_NONBLOCK) return result
Stalled(sz, pn, gp, nb) == sz > 0 /\ pn = gp /\ nb

\* a fault that is hidden once some bytes were delivered
FaultRetPartial(res) == IF res > 0 THEN res ELSE 0 - EFAULT

\* if (copy_to_user(...)) return -EFAULT
FaultRet(res) == 0 - EFAULT

\* a loop entered before its condition is looked at
SkipLoopNever(sz) == FALSE

\* while (size): the loop is not entered for a request of no bytes
SkipLoop(sz) == sz = 0

\* an offset kept inside the ring
NextPosWrapped(p, len) == (p + len) % VBI_DMA_SIZE

\* *pos += len
NextPos(p, len) == p + len

(* -------------------------- the RISC program -------------------------- *)

CLUSTER_BUF_SIZE == 2 ^ CLUSTER_SHIFT

\* irqt &= 0x1ff keeps irqt below this
IrqPeriod == 2 ^ IRQ_SHIFT

\* a uint32_t from a small natural
U32(a) == <<(a \div LIMB) % LIMB, a % LIMB>>

\* uint32_t addition of a small natural
U32Add(u, k) == <<(u[1] + ((u[2] + k) \div LIMB)) % LIMB, (u[2] + k) % LIMB>>

RECURSIVE Or16(_, _)
\* bitwise or of two limbs
Or16(a, b) ==
    IF a = 0 THEN b
    ELSE IF b = 0 THEN a
    ELSE 2 * Or16(a \div 2, b \div 2) + (IF a % 2 = 1 \/ b % 2 = 1 THEN 1 ELSE 0)

\* a | b on uint32_t
Or32(a, b) == <<Or16(a[1], b[1]), Or16(a[2], b[2])>>

\* v << k on uint32_t, v a small natural
Shl(v, k) ==
    IF k >= 16 THEN <<(v * (2 ^ (k - 16))) % LIMB, 0>>
    ELSE <<((v * (2 ^ k)) \div LIMB) % LIMB, (v * (2 ^ k)) % LIMB>>

\* 0x10000000
RISC_WRITE == Shl(1, 28)

\* 0x70000000
RISC_JUMP == Shl(7, 28)

\* 0x80000000
RISC_SYNC == Shl(8, 28)

\* irqt++; irqt &= 0x1ff
IrqtNext(irqt) == (irqt + 1) % IrqPeriod

\* every second Write raises the interrupt
IrqFieldAlways(irqt) == 1

\* ((irqt == 0) ? 1 : 0), shifted to bit 24 by the caller
IrqField(irqt) == IF irqt = 0 THEN 1 ELSE 0

\* every second Write increments the counter
CntFieldInc(i) == 1

\* ((i < VBI_DMA_PAGES - 1) ? 1 : 3), shifted to bit 16 by the caller
CntField(i) == IF i < VBI_DMA_PAGES - 1 THEN 1 ELSE 3

\* the ring taken as one contiguous buffer starting at page 0
PageAddrContiguous(phy, i) == U32(phy[0] + i * PAGE_SIZE)

\* dma_addr = dev->pgvec_phy[i]
PageAddr(phy, i) == U32(phy[i])

\* the four words the loop body emits for page i
PageWords(phy, i, irqt) ==
    LET head == Or32(Or32(RISC_WRITE, U32(CLUSTER_BUF_SIZE)), Shl(3, 26))
        dma_addr == PageAddr(phy, i)
    IN  << head,
           dma_addr,
           Or32(Or32(head, Shl(IrqField(irqt), 24)), Shl(CntField(i), 16)),
           U32Add(dma_addr, CLUSTER_BUF_SIZE) >>

RECURSIVE RiscWrites(_, _, _)
\* the for loop over the pages, from page i on, irqt as left by page i - 1
RiscWrites(phy, i, irqt) ==
    IF i >= VBI_DMA_PAGES THEN <<>>
    ELSE PageWords(phy, i, IrqtNext(irqt))
             \o RiscWrites(phy, i + 1, IrqtNext(irqt))

\* the Jump followed by one more word
RiscTailPadded(risc_phy) == <<RISC_JUMP, U32Add(U32(risc_phy), 4), U32(0)>>

\* *pp++ = RISC_JUMP; *pp++ = loop_addr, loop_addr = risc_inst_phy + 4
RiscTail(risc_phy) == <<RISC_JUMP, U32Add(U32(risc_phy), 4)>>

\* the words cx88sdr_make_risc_instructions stores from risc_inst_virt on
MakeRisc(phy, risc_phy) ==
    <<Or32(RISC_SYNC, Shl(3, 16))>> \o RiscWrites(phy, 0, 0) \o RiscTail(risc_phy)

(* ----------------------- the device as decoder ------------------------ *)

\* page frames dma_alloc_coherent may hand out, in any order; frame 0 is
\* NULL
Frames == 1 .. VBI_DMA_PAGES

\* bus address of a page frame
FrameAddr(f) == f * PAGE_SIZE

\* bus addresses dma_alloc_coherent may give the instruction buffer
RiscBases == {4096, 131072}

\* the value of a uint32_t below 2^31
Val(u) == u[1] * LIMB + u[2]

\* bits 28-31 of an instruction word
Opcode(w) == w[1] \div 4096

\* bits 0-11 of a Write: the byte count
WriteLen(w) == w[2] % 4096

\* bits 16-17: 1 increments the general purpose counter, 3 resets it
CntCtl(w) == w[1] % 4

\* bit 24: raise RISCI1
IrqBit(w) == (w[1] \div 256) % 2

\* words an instruction occupies, 1 for what is not an instruction
InstrWords(w) == IF Opcode(w) \in {1, 7} THEN 2 ELSE 1

SyncOp == Opcode(RISC_SYNC)

WriteOp == Opcode(RISC_WRITE)

JumpOp == Opcode(RISC_JUMP)

\* the counter after an instruction with control field c
Counted(cnt, c) ==
    IF c = 1 THEN (cnt + 1) % LIMB ELSE IF c = 3 THEN 0 ELSE cnt

(* -------------------- the instruction buffer's size ------------------- *)

\* VBI_DMA_PAGES of a build with pages of 2^ps bytes
BuildPages(ps) == DmaBytes \div (2 ^ ps)

\* the size without the page added for the Sync and the Jump
RiscInstBuffSizeNoPage(ps) == (DmaBytes \div ClusterBytes) * CLUSTER_BUF_NUM

\* risc_inst_buff_size = VBI_DMA_BUF_NUM * CLUSTER_BUF_NUM + PAGE_SIZE
RiscInstBuffSize(ps) == (DmaBytes \div ClusterBytes) * CLUSTER_BUF_NUM + 2 ^ ps

\* no instruction buffer being sized:
\*   page_shift  PAGE_SHIFT of the build
\*   size        risc_inst_buff_size
\*   i           the loop index of cx88sdr_make_risc_instructions
\*   pp          bytes between risc_inst_virt and pp
\*   at          what cx88sdr_make_risc_instructions stores next
NoEmit == [ page_shift |-> 0, size |-> 0, i |-> 0, pp |-> 0, at |-> "none" ]

(* ------------------------------- Init --------------------------------- *)

NoHistory ==
    [ completed |-> 0, rawOpen |-> 0, rawSampled |-> 0, pos0 |-> 0, size0 |-> 0,
      pnum0 |-> 0, gp0 |-> 0, nsamples |-> 0, ncopies |-> 0, raced |-> FALSE,
      oncursor |-> FALSE, consumed |-> 0, zeroed |-> 0, faulted |-> FALSE,
      sincesample |-> 0, psample |-> 0, stale |-> FALSE, sessions |-> 0,
      junk |-> 0, unmapped |-> 0, total |-> 0 ]

\* no cx88sdr_open in progress
NoOpening == [ raw |-> 0, oraw |-> 0, oat |-> "none" ]

\* dev after devm_kzalloc and pci_request_regions, before any buffer exists:
\*   stage     where cx88sdr_probe / cx88sdr_remove stands
\*   err       ret of cx88sdr_probe
\*   risc      risc_inst_virt != NULL and not yet freed
\*   risc_phy  risc_inst_phy
\*   prog      the words stored in the instruction buffer
\*   i         pages cx88sdr_alloc_dma_buffer has allocated
\*   pg        pgvec_virt as page frames, 0 for NULL
\*   phy       pgvec_phy
\*   live      frames allocated and not freed
\*   sram      CMDS and the DMA registers written
\*   cdt       the cluster descriptor table in the card's SRAM
\*   cmds      the instruction buffer address in CMDS
\*   ctrl      dev->gain, dev->input, dev->rate as last written to the card
\*   irq       interrupt handler installed
\*   dma       MO_VID_DMACNTRL enabled
\*   ip        word of prog the device fetches next (from 1), 0 before start
\*   intmsk    MO_PCI_INTMSK
\*   wild      the device touched memory the driver had freed
\*   fi        pages the loop of cx88sdr_free_dma_buffer has passed
\*   uaf       a file operation touched a page the driver had freed, the
\*             registers after iounmap, or dev after devres freed it
\*   mapped    dev->mmio maps the registers: from pci_ioremap_bar to iounmap
CardFresh ==
    [ stage |-> "alloc_risc", err |-> 0, risc |-> FALSE, risc_phy |-> 0,
      prog |-> <<>>, i |-> 0, pg |-> [p \in Pages |-> 0],
      phy |-> [p \in Pages |-> 0], live |-> {}, sram |-> FALSE, cdt |-> <<>>,
      cmds |-> 0, ctrl |-> [gain |-> 0, input |-> 0, rate |-> 0],
      irq |-> FALSE, dma |-> FALSE, ip |-> 0, intmsk |-> 0, wild |-> FALSE,
      fi |-> 0, uaf |-> FALSE, mapped |-> FALSE ]

\* CLUSTER_BUFFER_BASE of cx88_sdr.h
CLUSTER_BUFFER_BASE == CX_SRAM_BASE + 16384

\* the card after a setup that leaves the descriptor table unwritten
SramSetupNoTable(c) == [c EXCEPT !.cmds = c.risc_phy, !.sram = TRUE]

\* cx88sdr_sram_setup(dev, CLUSTER_BUF_NUM, CLUSTER_BUF_SIZE,
\* CLUSTER_BUFFER_BASE, CDT_BASE): one table entry per cluster buffer, then
\* CMDS and the DMA registers
SramSetup(c) ==
    [c EXCEPT !.cdt = [k \in 1 .. CLUSTER_BUF_NUM |->
                          CLUSTER_BUFFER_BASE + (k - 1) * CLUSTER_BUF_SIZE],
              !.cmds = c.risc_phy, !.sram = TRUE]

\* dev->gain = 0, dev->input = VMUX_01, dev->rate = RATE_8FSC_8BIT, written
\* to the card by cx88sdr_rate_set, cx88sdr_agc_setup, cx88sdr_input_set
InitialCtrl == [gain |-> 0, input |-> 1, rate |-> 1]

\* dev after a successful cx88sdr_probe that got frames 1 .. VBI_DMA_PAGES,
\* the device past the Sync
CardRunning ==
    [ SramSetup([CardFresh EXCEPT !.risc_phy = 4096]) EXCEPT
        !.stage = "running", !.risc = TRUE, !.ctrl = InitialCtrl,
        !.i = VBI_DMA_PAGES, !.pg = [p \in Pages |-> p + 1],
        !.phy = [p \in Pages |-> FrameAddr(p + 1)],
        !.live = 1 .. VBI_DMA_PAGES,
        !.prog = MakeRisc([p \in Pages |-> FrameAddr(p + 1)], 4096),
        !.irq = TRUE, !.dma = TRUE, !.ip = 2, !.mapped = TRUE ]

\* after probe: pages allocated (zero-filled), DMA started from page 0
Init ==
    /\ gpcnt = 0
    /\ mem = [p \in Pages |-> [o \in Offsets |-> 0]]
    /\ initial_page = <<0, 0>>
    /\ pos = 0
    /\ pc = "closed"
    /\ nonblock = FALSE
    /\ size = 0
    /\ result = 0
    /\ gp_cnt = 0
    /\ pnum = 0
    /\ moved = 0
    /\ buf = <<>>
    /\ ret = 0
    /\ others = 0
    /\ opening = NoOpening
    /\ card = CardRunning
    /\ emit = NoEmit
    /\ h = NoHistory

(* ------------------- the device running the program ------------------- *)

\* the pages of the ring a Write of len bytes to address a lands in
Hit(c, a, len) ==
    { p \in Pages : /\ c.pg[p] \in c.live
                    /\ \E o \in Offsets : c.phy[p] + o \in a .. (a + len - 1) }

\* memory after a Write of len bytes to address a
Written(c, m, a, len) ==
    [p \in Pages |->
        [o \in Offsets |->
            IF c.pg[p] \in c.live /\ c.phy[p] + o \in a .. (a + len - 1)
               THEN Sample(p, o) ELSE m[p][o]]]

\* some byte of the Write lands outside every page the driver holds
Stray(c, a, len) ==
    \E b \in a .. (a + len - 1) :
        \A p \in Pages :
            ~(c.pg[p] \in c.live /\ b \in c.phy[p] .. (c.phy[p] + PAGE_SIZE - 1))

\* the device fetches and executes one instruction: the Sync resets the
\* counter, a Write stores CLUSTER_BUF_SIZE bytes and counts as its counter
\* field says, the Jump goes back to the first Write
RiscExec ==
    /\ card.dma
    /\ card.risc
    /\ card.ip \in 1 .. Len(card.prog)
    /\ LET w == card.prog[card.ip]
           arg == card.prog[card.ip + 1]
       IN  \/ /\ Opcode(w) = SyncOp
              /\ gpcnt' = Counted(gpcnt, CntCtl(w))
              /\ card' = [card EXCEPT !.ip = @ + 1]
              /\ mem' = mem
           \/ /\ Opcode(w) = WriteOp
              /\ mem' = Written(card, mem, Val(arg), WriteLen(w))
              /\ gpcnt' = Counted(gpcnt, CntCtl(w))
              /\ card' = [card EXCEPT
                             !.ip = @ + 2,
                             !.wild = @ \/ Stray(card, Val(arg), WriteLen(w))]
           \/ /\ Opcode(w) = JumpOp
              /\ card' = [card EXCEPT
                             !.ip = ((Val(arg) - card.risc_phy) \div 4) + 1]
              /\ UNCHANGED <<gpcnt, mem>>
    /\ UNCHANGED reader

\* the device on its own, whatever the driver is doing
RiscStep ==
    /\ RiscExec
    /\ UNCHANGED h

\* the device, observed until it has completed MaxCompleted pages after the
\* session was opened: a page is complete when its second Write has moved
\* the counter
DeviceStep ==
    /\ h.completed < MaxCompleted
    /\ RiscExec
    /\ h' = IF pc = "closed" \/ gpcnt' = gpcnt
               THEN h ELSE [h EXCEPT !.completed = @ + 1]

\* the device, observed until it has completed LifePages pages since probe
DeviceLife ==
    /\ h.total < LifePages
    /\ RiscExec
    /\ h' = [h EXCEPT !.completed = IF pc = "closed" \/ gpcnt' = gpcnt
                                       THEN @ ELSE @ + 1,
                      !.total = IF gpcnt' = gpcnt THEN @ ELSE @ + 1]

\* the device fetches from the instruction buffer after it was freed
RiscFetchFreed ==
    /\ card.dma
    /\ ~card.risc
    /\ ~card.wild
    /\ card' = [card EXCEPT !.wild = TRUE]
    /\ UNCHANGED <<gpcnt, mem, session>>

(* ------------------------- the file operations ------------------------ *)

\* the device node exists: from video_register_device to
\* video_unregister_device
Registered == card.stage \in {"running", "unregister"}

\* pgvec_virt[p] points to a page the driver has freed
Freed(p) == card.pg[p] \notin card.live

\* dev itself is freed: devres releases it when cx88sdr_remove has returned
DevFreed == card.stage = "removed"

\* what ioread32 stands for when the access does not come back
Fault == 0 - 1

\* byte values: what the device stores in the ring and what freed memory
\* may hold
Bytes == 0 .. MaxByte

\* mmio_ioread32(dev, MO_VBI_GPCNT): the counter; through a mapping iounmap
\* has removed, a fault or any value, inside the ring's range or not
Ioread == IF card.mapped THEN {gpcnt} ELSE {Fault} \cup (0 .. MaxRaw)

\* mmio_iowrite32(dev, MO_PCI_INTMSK, v): through a mapping iounmap has
\* removed the write reaches no register
Iowrite(c, v) ==
    IF c.mapped THEN [c EXCEPT !.intmsk = v, !.uaf = @ \/ DevFreed]
    ELSE [c EXCEPT !.uaf = TRUE]

\* whether a call survives its mmio_iowrite32
Survives == IF card.mapped THEN {TRUE} ELSE BOOLEAN

\* a load of dev->initial_page: any value once dev is freed
InitialPage ==
    IF DevFreed THEN {initial_page} \cup {U32Dec(r) : r \in Pages}
    ELSE {initial_page}

\* cx88sdr_open of the session's file handle is entered, a new struct file
\* with offset 0: the device node is registered at this moment, and may be
\* gone at any later step of the call
OpenEntry ==
    /\ pc = "closed"
    /\ Registered
    /\ h.sessions < MaxSessions
    /\ pc' = "open_alloc"
    /\ h' = [h EXCEPT !.sessions = @ + 1]
    /\ UNCHANGED <<gpcnt, mem, initial_page, pos, nonblock, size, result, gp_cnt,
                   pnum, moved, buf, ret, others, opening, card, emit>>

\* lines 51-56: kzalloc, which may sleep, then v4l2_fh_init and v4l2_fh_add
\* on its result unchecked; a NULL fh ends the call in v4l2_fh_init
OpenAlloc ==
    /\ pc = "open_alloc"
    /\ \E fh \in BOOLEAN : pc' = IF fh THEN "open_read" ELSE "oops"
    /\ UNCHANGED <<gpcnt, mem, initial_page, pos, nonblock, size, result, gp_cnt,
                   pnum, moved, buf, ret, others, opening, card, emit, h>>

\* mmio_ioread32(dev, MO_VBI_GPCNT) of line 58
OpenRead ==
    /\ pc = "open_read"
    /\ \E v \in Ioread :
          IF v = Fault
             THEN /\ pc' = "oops"
                  /\ UNCHANGED <<opening, h>>
             ELSE /\ ~card.mapped => h.unmapped < MaxUnmapped
                  /\ opening' = [opening EXCEPT !.raw = v]
                  /\ pc' = "open_store"
                  /\ h' = [h EXCEPT !.rawOpen = v,
                                    !.unmapped = IF card.mapped THEN @ ELSE @ + 1]
    /\ card' = [card EXCEPT !.uaf = @ \/ ~card.mapped \/ DevFreed]
    /\ UNCHANGED <<gpcnt, mem, initial_page, pos, nonblock, size, result, gp_cnt,
                   pnum, moved, buf, ret, others, emit>>

\* the store of line 58: dev->initial_page = the value read - 1
OpenStore ==
    /\ pc = "open_store"
    /\ initial_page' = U32Dec(opening.raw)
    /\ card' = [card EXCEPT !.uaf = @ \/ DevFreed]
    /\ pc' = "open_unmask"
    /\ UNCHANGED <<gpcnt, mem, pos, nonblock, size, result, gp_cnt, pnum, moved, buf,
                   ret, others, opening, emit, h>>

\* mmio_iowrite32(dev, MO_PCI_INTMSK, 1) of line 59 and the return
OpenUnmask ==
    /\ pc = "open_unmask"
    /\ card' = Iowrite(card, 1)
    /\ \E ok \in Survives : pc' = IF ok THEN "idle" ELSE "oops"
    /\ UNCHANGED <<gpcnt, mem, initial_page, pos, nonblock, size, result, gp_cnt,
                   pnum, moved, buf, ret, others, opening, emit, h>>

\* cx88sdr_release of the session's file handle, no call of it in progress;
\* the struct file and its offset are gone
Release ==
    /\ pc \in {"idle", "returned"}
    /\ card' = Iowrite(card, 0)
    /\ \E ok \in Survives : pc' = IF ok THEN "closed" ELSE "oops"
    /\ pos' = 0
    /\ nonblock' = FALSE
    /\ size' = 0
    /\ result' = 0
    /\ gp_cnt' = 0
    /\ pnum' = 0
    /\ moved' = 0
    /\ buf' = <<>>
    /\ ret' = 0
    /\ h' = [NoHistory EXCEPT !.sessions = h.sessions, !.total = h.total]
    /\ UNCHANGED <<gpcnt, mem, initial_page, others, opening, emit>>

\* cx88sdr_open of another file handle on the same device is entered, at
\* any moment the device node is registered
OpenOtherEntry ==
    /\ Registered
    /\ others < MaxOthers
    /\ opening.oat = "none"
    /\ opening' = [opening EXCEPT !.oat = "alloc"]
    /\ UNCHANGED <<gpcnt, mem, initial_page, pos, pc, nonblock, size, result,
                   gp_cnt, pnum, moved, buf, ret, others, card, emit, h>>

\* lines 51-56 by the other file handle: with a NULL fh its call dies and no
\* handle comes to exist
OpenOtherAlloc ==
    /\ opening.oat = "alloc"
    /\ \E fh \in BOOLEAN :
          opening' = [opening EXCEPT !.oat = IF fh THEN "read" ELSE "none"]
    /\ UNCHANGED <<gpcnt, mem, initial_page, pos, pc, nonblock, size, result,
                   gp_cnt, pnum, moved, buf, ret, others, card, emit, h>>

\* the read of line 58 by the other file handle
OpenOtherRead ==
    /\ opening.oat = "read"
    /\ \E v \in Ioread :
          opening' = IF v = Fault THEN [opening EXCEPT !.oat = "none"]
                     ELSE [opening EXCEPT !.oraw = v, !.oat = "store"]
    /\ card' = [card EXCEPT !.uaf = @ \/ ~card.mapped \/ DevFreed]
    /\ UNCHANGED <<gpcnt, mem, initial_page, pos, pc, nonblock, size, result,
                   gp_cnt, pnum, moved, buf, ret, others, emit, h>>

\* the store of line 58 by the other file handle
OpenOtherStore ==
    /\ opening.oat = "store"
    /\ initial_page' = U32Dec(opening.oraw)
    /\ card' = [card EXCEPT !.uaf = @ \/ DevFreed]
    /\ opening' = [opening EXCEPT !.oat = "unmask"]
    /\ UNCHANGED <<gpcnt, mem, pos, pc, nonblock, size, result, gp_cnt, pnum, moved,
                   buf, ret, others, emit, h>>

\* line 59 by the other file handle: the handle exists when the call comes
\* back from the write
OpenOtherUnmask ==
    /\ opening.oat = "unmask"
    /\ card' = Iowrite(card, 1)
    /\ opening' = [opening EXCEPT !.oraw = 0, !.oat = "none"]
    /\ \E ok \in Survives : others' = IF ok THEN others + 1 ELSE others
    /\ UNCHANGED <<gpcnt, mem, initial_page, pos, pc, nonblock, size, result,
                   gp_cnt, pnum, moved, buf, ret, emit, h>>

\* cx88sdr_release of another file handle
ReleaseOther ==
    /\ others > 0
    /\ others' = others - 1
    /\ card' = Iowrite(card, 0)
    /\ UNCHANGED <<gpcnt, mem, initial_page, pos, pc, nonblock, size, result,
                   gp_cnt, pnum, moved, buf, ret, opening, emit, h>>

\* cx88sdr_read, lines 83-87: result = 0 and pnum from dev->initial_page
ReadEntry(sz, nb) ==
    /\ pc \in {"idle", "returned"}
    /\ pos + sz <= MaxPos
    /\ \E ip \in InitialPage :
          LET pn == PageIndex(ip, pos)
          IN  /\ pnum' = pn
              /\ h' = [h EXCEPT !.pos0 = pos, !.size0 = sz, !.pnum0 = pn,
                                !.nsamples = 0, !.ncopies = 0,
                                !.faulted = FALSE, !.sincesample = 0,
                                !.psample = pn, !.stale = FALSE]
    /\ pc' = "sample"
    /\ nonblock' = nb
    /\ size' = sz
    /\ result' = 0
    /\ moved' = 0
    /\ buf' = <<>>
    /\ ret' = 0
    /\ card' = [card EXCEPT !.uaf = @ \/ DevFreed]
    /\ UNCHANGED <<gpcnt, mem, initial_page, pos, gp_cnt, others, opening, emit>>

\* lines 89-95: the sample of MO_VBI_GPCNT, normalised, and the exits before
\* the inner loop
ReadSample ==
    /\ pc = "sample"
    /\ \E v \in Ioread :
          IF v = Fault
             THEN /\ pc' = "oops"
                  /\ UNCHANGED <<gp_cnt, h>>
             ELSE LET gp == Normalize(v)
                  IN  /\ ~card.mapped => h.unmapped < MaxUnmapped
                      /\ gp_cnt' = gp
                      /\ pc' = IF EarlyOut(pnum, gp, nonblock) \/ SkipLoop(size)
                                  THEN "returned" ELSE "loop"
                      /\ h' = [h EXCEPT !.rawSampled = v, !.gp0 = gp,
                                        !.nsamples = 1,
                                        !.unmapped = IF card.mapped THEN @ ELSE @ + 1]
    /\ card' = [card EXCEPT !.uaf = @ \/ ~card.mapped \/ DevFreed]
    /\ UNCHANGED <<gpcnt, mem, initial_page, pos, nonblock, size, result, pnum, moved,
                   buf, ret, others, opening, emit>>

\* the chunk of lines 100-103 is being copied or about to be
Copying == (pc = "loop" /\ CanCopy(size, pnum, gp_cnt)) \/ pc = "copy"

\* the page behind dev->pgvec_virt[pnum] is no longer the driver's: freed by
\* cx88sdr_free_dma_buffer, or the pointer itself read from the freed dev
Gone == Freed(pnum) \/ DevFreed

\* copy_to_user of lines 104-106 moves one more byte of the chunk: the
\* caller gets the byte the page holds at this moment; of a page the driver
\* has freed it gets whatever the frame holds now, or the load faults in
\* the kernel and the call dies
CopyByte ==
    /\ Copying
    /\ LET off == (pos % PAGE_SIZE) + moved
           len == ChunkLen(pos, size)
       IN  \/ /\ Gone => h.junk < MaxJunk
              /\ \E b \in (IF Gone THEN Bytes ELSE {ByteAt(mem, pnum, off)}) :
                    buf' = Append(buf, <<pnum, off, b>>)
              /\ moved' = IF moved + 1 = len THEN 0 ELSE moved + 1
              /\ pc' = IF moved + 1 = len THEN "memset" ELSE "copy"
              /\ h' = [h EXCEPT !.ncopies = IF moved = 0 THEN @ + 1 ELSE @,
                                !.sincesample = IF moved = 0 THEN @ + 1 ELSE @,
                                !.stale = @ \/ (moved = 0 /\ h.sincesample >= 1),
                                !.raced = @ \/ (pnum = gpcnt),
                                !.oncursor = @ \/ (pnum = gp_cnt),
                                !.consumed = @ + 1,
                                !.junk = IF Gone THEN @ + 1 ELSE @]
           \/ /\ Gone
              /\ pc' = "oops"
              /\ UNCHANGED <<moved, buf, h>>
    /\ card' = [card EXCEPT !.uaf = @ \/ Gone]
    /\ UNCHANGED <<gpcnt, mem, initial_page, pos, nonblock, size, result, gp_cnt,
                   pnum, ret, others, opening, emit>>

\* copy_to_user fails at the next byte of the chunk, the bytes before it
\* delivered: return -EFAULT
CopyFault ==
    /\ Copying
    /\ pc' = "returned"
    /\ ret' = FaultRet(result)
    /\ moved' = 0
    /\ h' = [h EXCEPT !.faulted = TRUE, !.consumed = @ - moved]
    /\ card' = [card EXCEPT !.uaf = @ \/ DevFreed]
    /\ UNCHANGED <<gpcnt, mem, initial_page, pos, nonblock, size, result, gp_cnt,
                   pnum, buf, others, opening, emit>>

\* memset of line 108 stores one more zero of the chunk; into a page the
\* driver has freed the store lands in the frame, or the store faults in the
\* kernel and the call dies; through a pointer read from the freed dev it
\* may also land outside the ring
MemsetByte ==
    /\ pc = "memset"
    /\ LET off == (pos % PAGE_SIZE) + moved
           len == ChunkLen(pos, size)
       IN  \/ /\ \/ mem' = Zeroed(mem, pnum, off, 1)
                 \/ DevFreed /\ mem' = mem
              /\ moved' = IF moved + 1 = len THEN 0 ELSE moved + 1
              /\ pc' = IF moved + 1 = len THEN "advance" ELSE "memset"
              /\ h' = [h EXCEPT !.raced = @ \/ (pnum = gpcnt), !.zeroed = @ + 1]
           \/ /\ Gone
              /\ pc' = "oops"
              /\ UNCHANGED <<mem, moved, h>>
    /\ card' = [card EXCEPT !.uaf = @ \/ Gone]
    /\ UNCHANGED <<gpcnt, initial_page, pos, nonblock, size, result, gp_cnt, pnum,
                   buf, ret, others, opening, emit>>

\* lines 110-115: the counts and pnum from dev->initial_page as it stands
\* now; and the exits that follow without reading the device: size
\* exhausted, or O_NONBLOCK with the cursor on the sampled page
Advance ==
    /\ pc = "advance"
    /\ LET len == ChunkLen(pos, size)
           np  == NextPos(pos, len)
       IN  /\ result' = result + len
           /\ pos' = np
           /\ size' = size - len
           /\ \E ip \in InitialPage :
                 LET pn == PageIndex(ip, np)
                 IN  /\ pnum' = pn
                     /\ IF size - len = 0
                           THEN pc' = "returned" /\ ret' = result + len
                           ELSE IF Stalled(size - len, pn, gp_cnt, nonblock)
                                   THEN pc' = "returned" /\ ret' = result + len
                                   ELSE pc' = "loop" /\ ret' = ret
    /\ card' = [card EXCEPT !.uaf = @ \/ DevFreed]
    /\ UNCHANGED <<gpcnt, mem, initial_page, nonblock, gp_cnt, moved, buf, others,
                   opening, emit, h>>

\* the blocking wait, lines 117-123: read the counter again
Poll ==
    /\ pc = "loop"
    /\ ~CanCopy(size, pnum, gp_cnt)
    /\ size > 0
    /\ ~Stalled(size, pnum, gp_cnt, nonblock)
    /\ \E v \in Ioread :
          IF v = Fault
             THEN /\ pc' = "oops"
                  /\ UNCHANGED <<gp_cnt, h>>
             ELSE /\ ~card.mapped => h.unmapped < MaxUnmapped
                  /\ gp_cnt' = Normalize(v)
                  /\ pc' = pc
                  /\ h' = [h EXCEPT !.rawSampled = v,
                                    !.nsamples = IF @ = 2 THEN 3 ELSE 2,
                                    !.sincesample = 0, !.psample = pnum,
                                    !.unmapped = IF card.mapped THEN @ ELSE @ + 1]
    /\ card' = [card EXCEPT !.uaf = @ \/ ~card.mapped \/ DevFreed]
    /\ UNCHANGED <<gpcnt, mem, initial_page, pos, nonblock, size, result, pnum, moved,
                   buf, ret, others, opening, emit>>

Read == \E sz \in 0 .. MaxSize, nb \in BOOLEAN : ReadEntry(sz, nb)

\* one session on the running card
Next ==
    \/ DeviceStep
    \/ OpenEntry
    \/ OpenAlloc
    \/ OpenRead
    \/ OpenStore
    \/ OpenUnmask
    \/ Read
    \/ ReadSample
    \/ CopyByte
    \/ CopyFault
    \/ MemsetByte
    \/ Advance
    \/ Poll

Spec == Init /\ [][Next]_vars

(* ------------------------- probe and remove --------------------------- *)

\* error codes request_irq and the V4L2 registration calls may return
Errnos == {ENOMEM, ENODEV}

\* cx88sdr_alloc_risc_inst_buffer and the branch of cx88sdr_probe on it
AllocRiscInstBuffer ==
    /\ card.stage = "alloc_risc"
    /\ \/ \E b \in RiscBases :
              card' = [card EXCEPT !.risc = TRUE, !.risc_phy = b,
                                   !.stage = "alloc_dma"]
       \/ card' = [card EXCEPT !.err = 0 - ENOMEM, !.stage = "free_regions"]
    /\ UNCHANGED <<gpcnt, mem, session>>

\* one turn of the allocation loop of cx88sdr_alloc_dma_buffer; when
\* dma_alloc_coherent gives NULL the function returns -ENOMEM and
\* cx88sdr_probe goes to the label cx88sdr_free_risc_inst_buffer
AllocDmaPage ==
    /\ card.stage = "alloc_dma"
    /\ card.i < VBI_DMA_PAGES
    /\ \/ \E f \in Frames \ card.live :
              card' = [card EXCEPT
                          !.pg[card.i] = f, !.phy[card.i] = FrameAddr(f),
                          !.live = @ \cup {f}, !.i = @ + 1,
                          !.stage = IF card.i + 1 = VBI_DMA_PAGES
                                       THEN "make_risc" ELSE @]
       \/ card' = [card EXCEPT !.err = 0 - ENOMEM, !.stage = "free_risc"]
    /\ UNCHANGED <<gpcnt, mem, session>>

\* cx88sdr_make_risc_instructions
MakeRiscInstructions ==
    /\ card.stage = "make_risc"
    /\ card' = [card EXCEPT !.prog = MakeRisc(card.phy, card.risc_phy),
                            !.stage = "ioremap"]
    /\ UNCHANGED <<gpcnt, mem, session>>

\* pci_ioremap_bar
Ioremap ==
    /\ card.stage = "ioremap"
    /\ \/ card' = [card EXCEPT !.mapped = TRUE, !.stage = "reset"]
       \/ card' = [card EXCEPT !.err = 0 - ENODEV, !.stage = "free_dma"]
    /\ UNCHANGED <<gpcnt, mem, session>>

\* cx88sdr_shutdown and cx88sdr_sram_setup
Reset ==
    /\ card.stage = "reset"
    /\ card' = [SramSetup([card EXCEPT !.dma = FALSE, !.intmsk = 0])
                   EXCEPT !.stage = "request_irq"]
    /\ UNCHANGED <<gpcnt, mem, session>>

\* request_irq
RequestIrq ==
    /\ card.stage = "request_irq"
    /\ \/ card' = [card EXCEPT !.irq = TRUE, !.stage = "adc_setup"]
       \/ \E e \in Errnos :
              card' = [card EXCEPT !.err = 0 - e, !.stage = "free_mmio"]
    /\ UNCHANGED <<gpcnt, mem, session>>

\* cx88sdr_adc_setup: the device starts fetching at the address in CMDS;
\* then cx88sdr_rate_set, cx88sdr_agc_setup, cx88sdr_input_set
AdcSetup ==
    /\ card.stage = "adc_setup"
    /\ card' = [card EXCEPT !.dma = TRUE,
                            !.ip = ((card.cmds - card.risc_phy) \div 4) + 1,
                            !.ctrl = InitialCtrl, !.stage = "register"]
    /\ UNCHANGED <<gpcnt, mem, session>>

\* v4l2_device_register, the controls, video_register_device
Register ==
    /\ card.stage = "register"
    /\ \/ card' = [card EXCEPT !.stage = "running"]
       \/ \E e \in Errnos, l \in {"free_irq", "free_v4l2"} :
              card' = [card EXCEPT !.err = 0 - e, !.stage = l]
    /\ UNCHANGED <<gpcnt, mem, session>>

\* label free_v4l2
FreeV4l2 ==
    /\ card.stage = "free_v4l2"
    /\ card' = [card EXCEPT !.stage = "free_irq"]
    /\ UNCHANGED <<gpcnt, mem, session>>

\* label free_irq
FreeIrq ==
    /\ card.stage = "free_irq"
    /\ card' = [card EXCEPT !.irq = FALSE, !.stage = "free_mmio"]
    /\ UNCHANGED <<gpcnt, mem, session>>

\* label free_mmio
FreeMmio ==
    /\ card.stage = "free_mmio"
    /\ card' = [card EXCEPT !.mapped = FALSE, !.stage = "free_dma"]
    /\ UNCHANGED <<gpcnt, mem, session>>

\* one turn of the loop of cx88sdr_free_dma_buffer: dma_free_coherent of
\* page fi when pgvec_virt[fi] is not NULL, the pointer is left in place;
\* after the last turn the caller goes on to free the instruction buffer
FreeDmaPage ==
    /\ card.stage \in {"free_dma", "remove_dma"}
    /\ card.fi < VBI_DMA_PAGES
    /\ card' = [card EXCEPT
                  !.live = IF card.pg[card.fi] # 0
                              THEN @ \ {card.pg[card.fi]} ELSE @,
                  !.fi = @ + 1,
                  !.stage = IF card.fi + 1 < VBI_DMA_PAGES THEN @
                            ELSE IF @ = "free_dma" THEN "free_risc"
                            ELSE "remove_risc"]
    /\ UNCHANGED <<gpcnt, mem, session>>

\* label cx88sdr_free_risc_inst_buffer
FreeRiscInstBuffer ==
    /\ card.stage = "free_risc"
    /\ card' = [card EXCEPT !.risc = FALSE, !.stage = "free_regions"]
    /\ UNCHANGED <<gpcnt, mem, session>>

\* labels free_pci_regions and disable_device, return ret
ReleaseRegions ==
    /\ card.stage = "free_regions"
    /\ card' = [card EXCEPT !.stage = "failed"]
    /\ UNCHANGED <<gpcnt, mem, session>>

\* cx88sdr_remove begins, whatever file handles are open: cx88sdr_shutdown
\* stops the RISC controller, the DMA and the interrupts
Remove ==
    /\ card.stage = "running"
    /\ card' = [card EXCEPT !.dma = FALSE, !.intmsk = 0, !.stage = "unregister"]
    /\ UNCHANGED <<gpcnt, mem, session>>

\* cx88sdr_remove once it has cx88sdr_devlist_lock: list_del,
\* video_unregister_device, v4l2_device_unregister
Unregister ==
    /\ card.stage = "unregister"
    /\ card' = [card EXCEPT !.stage = "remove_irq"]
    /\ UNCHANGED <<gpcnt, mem, session>>

\* free_irq of cx88sdr_remove: the registers stay mapped
RemoveFreeIrq ==
    /\ card.stage = "remove_irq"
    /\ card' = [card EXCEPT !.irq = FALSE, !.stage = "remove_mmio"]
    /\ UNCHANGED <<gpcnt, mem, session>>

\* iounmap of cx88sdr_remove
RemoveUnmap ==
    /\ card.stage = "remove_mmio"
    /\ card' = [card EXCEPT !.mapped = FALSE, !.stage = "remove_dma"]
    /\ UNCHANGED <<gpcnt, mem, session>>

\* cx88sdr_remove after cx88sdr_free_dma_buffer:
\* cx88sdr_free_risc_inst_buffer, pci_release_regions, pci_disable_device
RemoveFreeRisc ==
    /\ card.stage = "remove_risc"
    /\ card' = [card EXCEPT !.risc = FALSE, !.stage = "removed"]
    /\ UNCHANGED <<gpcnt, mem, session>>

(* ------------------------- the card from probe ------------------------ *)

\* before cx88sdr_probe allocates: no buffer, the device idle
InitSetup ==
    /\ gpcnt = 0
    /\ mem = [p \in Pages |-> [o \in Offsets |-> 0]]
    /\ initial_page = <<0, 0>>
    /\ pos = 0
    /\ pc = "closed"
    /\ nonblock = FALSE
    /\ size = 0
    /\ result = 0
    /\ gp_cnt = 0
    /\ pnum = 0
    /\ moved = 0
    /\ buf = <<>>
    /\ ret = 0
    /\ others = 0
    /\ opening = NoOpening
    /\ card = CardFresh
    /\ emit = NoEmit
    /\ h = NoHistory

\* cx88sdr_probe step by step, cx88sdr_remove, and the device
NextSetup ==
    \/ AllocRiscInstBuffer
    \/ AllocDmaPage
    \/ MakeRiscInstructions
    \/ Ioremap
    \/ Reset
    \/ RequestIrq
    \/ AdcSetup
    \/ Register
    \/ FreeV4l2
    \/ FreeIrq
    \/ FreeMmio
    \/ FreeDmaPage
    \/ FreeRiscInstBuffer
    \/ ReleaseRegions
    \/ Remove
    \/ Unregister
    \/ RemoveFreeIrq
    \/ RemoveUnmap
    \/ RemoveFreeRisc
    \/ RiscStep
    \/ RiscFetchFreed

SpecSetup == InitSetup /\ [][NextSetup]_vars

(* ---------------------- the card's whole life ------------------------ *)

\* the value a control is set to: gain 1, input VMUX_01, rate RATE_8FSC_8BIT
CtrlValues == {1}

\* cx88sdr_s_ctrl through an open file handle: dev->gain, dev->input or
\* dev->rate and the registers of cx88sdr_gain_set, cx88sdr_input_set,
\* cx88sdr_rate_set
SetCtrl ==
    /\ Registered
    /\ pc \in {"idle", "sample", "loop", "copy", "memset", "advance", "returned"}
       \/ others > 0
    /\ \E id \in {"gain", "input", "rate"}, v \in CtrlValues :
          card' = [card EXCEPT !.ctrl[id] = v]
    /\ UNCHANGED <<gpcnt, mem, session>>

\* dma_alloc_coherent within LifeScatter of the lowest free frame and of the
\* first base
Near ==
    /\ \/ card.risc_phy = 0
       \/ Cardinality({b \in RiscBases : b < card.risc_phy}) <= LifeScatter
    /\ \A p \in Pages :
          \/ card.pg[p] = 0
          \/ card.pg[p] - (p + 1) \in (0 - LifeScatter) .. LifeScatter

\* probe, the device completing LifePages pages, up to MaxSessions sessions
\* reading up to LifePos bytes, the controls, and removal at any moment
NextLife ==
    \/ (AllocRiscInstBuffer \/ AllocDmaPage) /\ Near'
    \/ MakeRiscInstructions
    \/ Ioremap
    \/ Reset
    \/ RequestIrq
    \/ AdcSetup
    \/ Register
    \/ FreeV4l2
    \/ FreeIrq
    \/ FreeMmio
    \/ FreeDmaPage
    \/ FreeRiscInstBuffer
    \/ ReleaseRegions
    \/ Remove
    \/ Unregister
    \/ RemoveFreeIrq
    \/ RemoveUnmap
    \/ RemoveFreeRisc
    \/ DeviceLife
    \/ RiscFetchFreed
    \/ OpenEntry
    \/ OpenAlloc
    \/ OpenRead
    \/ OpenStore
    \/ OpenUnmask
    \/ Release
    \/ \E sz \in 0 .. LifeSize, nb \in BOOLEAN :
          ReadEntry(sz, nb) /\ pos + sz <= LifePos
    \/ ReadSample
    \/ CopyByte
    \/ CopyFault
    \/ MemsetByte
    \/ Advance
    \/ Poll
    \/ SetCtrl

SpecLife == InitSetup /\ [][NextLife]_vars

(* ------------- sizing and filling the instruction buffer -------------- *)

\* everything but the instruction buffer being sized
driver == <<gpcnt, mem, initial_page, pos, pc, nonblock, size, result, gp_cnt,
            pnum, moved, buf, ret, others, opening, card, h>>

\* cx88sdr_alloc_risc_inst_buffer computes risc_inst_buff_size
SizeRiscInstBuffer ==
    /\ emit.at = "alloc"
    /\ emit' = [emit EXCEPT !.size = RiscInstBuffSize(emit.page_shift),
                            !.at = "sync"]
    /\ UNCHANGED driver

\* *pp++ = RISC_SYNC | (3 << 16)
StoreSync ==
    /\ emit.at = "sync"
    /\ emit' = [emit EXCEPT !.pp = @ + WORD, !.at = "page"]
    /\ UNCHANGED driver

\* one turn of the loop: four stores through pp
StorePage ==
    /\ emit.at = "page"
    /\ emit' = [emit EXCEPT
                  !.pp = @ + 4 * WORD, !.i = @ + 1,
                  !.at = IF emit.i + 1 < BuildPages(emit.page_shift)
                            THEN "page" ELSE "jump"]
    /\ UNCHANGED driver

\* *pp++ = RISC_JUMP; *pp++ = loop_addr
StoreJump ==
    /\ emit.at = "jump"
    /\ emit' = [emit EXCEPT !.pp = @ + 2 * WORD, !.at = "done"]
    /\ UNCHANGED driver

\* the driver built for one of the page sizes, about to size the buffer
InitSize ==
    /\ gpcnt = 0
    /\ mem = [p \in Pages |-> [o \in Offsets |-> 0]]
    /\ initial_page = <<0, 0>>
    /\ pos = 0
    /\ pc = "closed"
    /\ nonblock = FALSE
    /\ size = 0
    /\ result = 0
    /\ gp_cnt = 0
    /\ pnum = 0
    /\ moved = 0
    /\ buf = <<>>
    /\ ret = 0
    /\ others = 0
    /\ opening = NoOpening
    /\ card = CardFresh
    /\ emit \in { [NoEmit EXCEPT !.page_shift = ps, !.at = "alloc"] :
                     ps \in BuildPageShifts }
    /\ h = NoHistory

NextSize ==
    \/ SizeRiscInstBuffer
    \/ StoreSync
    \/ StorePage
    \/ StoreJump

SpecSize == InitSize /\ [][NextSize]_vars

\* the device completing MultiPages pages, the session reading up to
\* MultiPos bytes, and other file handles opened and released at any moment
NextMulti ==
    \/ DeviceStep /\ h.completed < MultiPages
    \/ OpenEntry
    \/ OpenAlloc
    \/ OpenRead
    \/ OpenStore
    \/ OpenUnmask
    \/ Release
    \/ OpenOtherEntry
    \/ OpenOtherAlloc
    \/ OpenOtherRead
    \/ OpenOtherStore
    \/ OpenOtherUnmask
    \/ ReleaseOther
    \/ \E sz \in 0 .. MultiSize, nb \in BOOLEAN :
          ReadEntry(sz, nb) /\ pos + sz <= MultiPos
    \/ ReadSample
    \/ CopyByte
    \/ CopyFault
    \/ MemsetByte
    \/ Advance
    \/ Poll

SpecMulti == Init /\ [][NextMulti]_vars

\* the free-running device with a reader that keeps being scheduled and
\* reads up to LivePos bytes
NextLive ==
    \/ RiscStep
    \/ OpenEntry
    \/ OpenAlloc
    \/ OpenRead
    \/ OpenStore
    \/ OpenUnmask
    \/ \E sz \in 0 .. LiveSize, nb \in BOOLEAN :
          ReadEntry(sz, nb) /\ pos + sz <= LivePos
    \/ ReadSample
    \/ CopyByte
    \/ CopyFault
    \/ MemsetByte
    \/ Advance
    \/ Poll

SpecLive ==
    /\ Init
    /\ [][NextLive]_vars
    /\ WF_vars(RiscStep)
    /\ WF_vars(OpenAlloc)
    /\ WF_vars(OpenRead)
    /\ WF_vars(OpenStore)
    /\ WF_vars(OpenUnmask)
    /\ WF_vars(ReadSample)
    /\ WF_vars(Poll)
    /\ WF_vars(CopyByte)
    /\ WF_vars(MemsetByte)
    /\ WF_vars(Advance)

(* --------------------------- the properties --------------------------- *)

\* cx88sdr_open has stored dev->initial_page for the session
Opened ==
    pc \in {"open_unmask", "idle", "sample", "loop", "copy", "memset", "advance",
            "returned"}

\* cx88sdr_read has sampled the counter
InCall ==
    /\ pc \in {"loop", "copy", "memset", "advance", "returned"}
    /\ h.nsamples >= 1

\* bytes copy_to_user has delivered that the call has not counted yet
Pending ==
    IF pc = "copy" THEN moved
    ELSE IF pc \in {"memset", "advance"} THEN ChunkLen(pos, size) ELSE 0

Returned == pc = "returned" /\ h.nsamples >= 1

\* the page of the ring on which offset 0 of the session falls: the page
\* before the one the device was writing when the session was opened
StartPage == (h.rawOpen + VBI_DMA_PAGES - 1) % VBI_DMA_PAGES

\* C1: the cursor never passes the producer: the bytes consumed since open are
\* at most PAGE_SIZE * (pages completed since open + 1), and no copy sub-step
\* was taken with the cursor on the sampled last written page
C1_NeverAhead ==
    pc # "closed" =>
        /\ pos <= PAGE_SIZE * (h.completed + 1)
        /\ h.consumed <= PAGE_SIZE * (h.completed + 1)
        /\ ~h.oncursor

\* C1 witness: the reader has copied and caught up with the producer
C1_CaughtUp ==
    /\ Returned
    /\ h.ncopies >= 1
    /\ h.completed >= 2
    /\ pos = PAGE_SIZE * h.completed
    /\ pnum = gp_cnt

\* C2: the reader never copies from or zeroes the page the device is writing
C2_NoSharedPage == ~h.raced

\* C3 as stated: open records the page before the last written page, so the
\* first read with the producer unchanged finds the cursor off the producer page
C3_OneBehindLastWritten ==
    Opened =>
        /\ AddMod(initial_page, 0, VBI_DMA_PAGES)
              = (((h.rawOpen + VBI_DMA_PAGES - 1) % VBI_DMA_PAGES)
                    + VBI_DMA_PAGES - 1) % VBI_DMA_PAGES
        /\ (InCall /\ h.completed = 0 /\ h.pos0 = 0) => h.pnum0 # h.gp0

\* C3 amended: open records raw - 1 as a uint32, which is the last written
\* page modulo the ring; the first read with the producer unchanged finds the
\* cursor on the producer page, so it returns 0 (O_NONBLOCK) or waits
C3_StartsOnLastWritten ==
    Opened =>
        /\ initial_page = (IF h.rawOpen = 0 THEN <<LIMB - 1, LIMB - 1>>
                           ELSE <<0, h.rawOpen - 1>>)
        /\ AddMod(initial_page, 0, VBI_DMA_PAGES) = StartPage
        /\ (InCall /\ h.completed = 0) =>
              /\ h.pnum0 = h.gp0
              /\ h.pnum0 = StartPage
              /\ buf = <<>>
              /\ (nonblock => pc = "returned" /\ ret = 0)
              /\ (~nonblock /\ size > 0 => pc = "loop")

\* C3 witness: opened with the counter at 0, a non-blocking read right after
\* open returned 0
C3_FirstReadFindsNothing ==
    /\ Returned
    /\ h.rawOpen = 0
    /\ h.completed = 0
    /\ nonblock
    /\ h.size0 > 0
    /\ ret = 0
    /\ pnum = VBI_DMA_PAGES - 1

\* C4: every sample of the counter is normalised to the last written page:
\* raw 0 gives N - 1, raw k >= 1 gives k - 1, always inside [0, N)
C4_Normalized ==
    h.nsamples >= 1 =>
        /\ gp_cnt \in Pages
        /\ h.rawSampled = 0 => gp_cnt = VBI_DMA_PAGES - 1
        /\ h.rawSampled >= 1 => gp_cnt = h.rawSampled - 1
        /\ h.nsamples = 1 => h.gp0 = gp_cnt

\* C4 witness: the sample inside the wait loop read a raw 0
C4_PollSawZero ==
    /\ h.nsamples >= 2
    /\ h.rawSampled = 0
    /\ gp_cnt = VBI_DMA_PAGES - 1

\* C5: the j-th byte of a read that started at offset o comes from in-page
\* offset (o + j) mod PAGE_SIZE of page
\* (start page + ((o + j) mod ring size) div PAGE_SIZE) mod N, so no copy
\* sub-step reaches past the end of its page
C5_StreamOrder ==
    InCall =>
        \A j \in 1 .. Len(buf) :
            LET a == h.pos0 + j - 1
            IN  /\ buf[j][1] = (StartPage + ((a % VBI_DMA_SIZE) \div PAGE_SIZE))
                                   % VBI_DMA_PAGES
                /\ buf[j][2] = a % PAGE_SIZE
                /\ buf[j][3] \in {0, Sample(buf[j][1], buf[j][2])}

\* C5 witness: one and a half pages read across the end of the ring, the
\* last page's bytes and then page 0's
C5_WrapRead ==
    /\ Returned
    /\ Len(buf) = PAGE_SIZE + PAGE_SIZE \div 2
    /\ buf[1] = <<VBI_DMA_PAGES - 1, 0, Sample(VBI_DMA_PAGES - 1, 0)>>
    /\ buf[PAGE_SIZE] = <<VBI_DMA_PAGES - 1, PAGE_SIZE - 1,
                          Sample(VBI_DMA_PAGES - 1, PAGE_SIZE - 1)>>
    /\ buf[PAGE_SIZE + 1] = <<0, 0, Sample(0, 0)>>
    /\ h.ncopies = 2

\* C6: a read that does not fault returns the number of bytes it delivered and
\* advances the offset by exactly that; the offset is the total consumed since
\* open, never reduced modulo the ring; zero is returned for a request of
\* size > 0 only when nothing was copied
C6_ReturnsBytesCopied ==
    /\ pc # "closed" => pos + Pending = h.consumed
    /\ (InCall /\ ~h.faulted) =>
          /\ pos + Pending = h.pos0 + Len(buf)
          /\ result + Pending = Len(buf)
    /\ (Returned /\ ret >= 0) =>
          /\ ret = Len(buf)
          /\ pos = h.pos0 + ret
          /\ ret <= h.size0

\* C6 witness: a non-blocking read stalled after a partial copy and returned
\* the short count, with the offset beyond the ring size
C6_ShortCountPastRing ==
    /\ Returned
    /\ nonblock
    /\ ret > 0
    /\ ret < h.size0
    /\ pos >= VBI_DMA_SIZE

\* C7: a blocking read of size > 0 returns -EFAULT or the full size
C7_BlockingAllOrFault ==
    (Returned /\ ~nonblock /\ h.size0 > 0) =>
        \/ ret = 0 - EFAULT
        \/ ret = h.size0 /\ Len(buf) = h.size0

\* C7 witness: a blocking read had to wait in the middle and returned in full
C7_WaitedThenFull ==
    /\ Returned
    /\ ~nonblock
    /\ h.nsamples >= 2
    /\ h.ncopies >= 2
    /\ ret = h.size0

\* C8: a blocking read that entered its loop eventually returns, given that
\* the device keeps completing pages and the reader keeps being scheduled
C8_BlockingReturns == (pc = "loop" /\ ~nonblock) ~> (pc = "returned")

\* C9: while the producer has not advanced since open, a non-blocking read of
\* size > 0 returns 0, delivers nothing, zeroes nothing and leaves the offset
C9_Starved ==
    (pc # "closed" /\ h.completed = 0) =>
        /\ pos = 0
        /\ h.consumed = 0
        /\ h.zeroed = 0
        /\ h.ncopies = 0
        /\ (Returned /\ nonblock /\ h.size0 > 0) => ret = 0 /\ buf = <<>>

\* C9 witness: such a read has returned
C9_StarvedRead ==
    /\ Returned
    /\ nonblock
    /\ h.size0 = MaxSize
    /\ h.completed = 0
    /\ ret = 0
    /\ h.rawOpen > 0

\* C10: a non-blocking read samples the counter once, takes at most one copy
\* sub-step per page between the cursor and the sampled page, and is never
\* left waiting for the device
C10_NonBlockingBounded ==
    (InCall /\ nonblock) =>
        /\ h.nsamples = 1
        /\ gp_cnt = h.gp0
        /\ h.ncopies <= (h.gp0 + VBI_DMA_PAGES - h.pnum0) % VBI_DMA_PAGES
        /\ pc = "loop" => size > 0 /\ pnum # gp_cnt

\* C10 witness: a non-blocking read copied up to the sampled page, as many
\* sub-steps as there were pages, and returned short without sampling again
C10_CopiedThenOut ==
    /\ Returned
    /\ nonblock
    /\ h.ncopies >= 1
    /\ h.ncopies = (h.gp0 + VBI_DMA_PAGES - h.pnum0) % VBI_DMA_PAGES
    /\ ret > 0
    /\ ret < h.size0
    /\ pnum = gp_cnt
    /\ h.nsamples = 1

\* the ring locations of the chunk copy_to_user delivered last
Chunk ==
    { <<buf[j][1], buf[j][2]>> :
         j \in (Len(buf) - ChunkLen(pos, size) + 1) .. Len(buf) }

\* C11: copy_to_user changes no byte of the ring; the memset that follows it
\* zeroes the bytes of the chunk delivered, one after the other, and changes
\* no other byte; the offset then moves by the length of the chunk; a zeroed
\* byte stays zero until the device writes its page again, so reading it
\* again before that yields zero
C11_Tombstone ==
    [][ /\ Len(buf') > Len(buf) => mem' = mem
        /\ (pc = "memset" /\ (moved' # moved \/ pc' # pc)) =>
              LET j == Len(buf) - ChunkLen(pos, size) + 1 + moved
              IN  /\ <<buf[j][1], buf[j][2]>> = <<pnum, (pos % PAGE_SIZE) + moved>>
                  /\ \A q \in Pages, o \in Offsets :
                        mem'[q][o] = IF <<q, o>> = <<buf[j][1], buf[j][2]>>
                                        THEN 0 ELSE mem[q][o]
                  /\ h'.zeroed = pos + moved + 1
        /\ (pc = "advance" /\ pc' # pc) =>
              /\ Cardinality(Chunk) = pos' - pos
              /\ h.zeroed = pos'
              /\ mem' = mem
        /\ \A q \in Pages, o \in Offsets :
              (mem[q][o] = 0 /\ mem'[q][o] # 0) =>
                  (q = gpcnt /\ card'.ip # card.ip)
        /\ (mem' # mem /\ card'.ip = card.ip) => pc = "memset"
      ]_vars

\* C11 witness: half a page was read: its first byte is zero, its second
\* still holds the sample
C11_HalfPageZeroed ==
    /\ Returned
    /\ h.ncopies = 1
    /\ Len(buf) = 1
    /\ buf[1][2] = 0
    /\ buf[1][3] # 0
    /\ mem[buf[1][1]][0] = 0
    /\ mem[buf[1][1]][1] = Sample(buf[1][1], 1)

\* C12: when copy_to_user fails the call returns -EFAULT, also after earlier
\* chunks were delivered; the failed chunk, whatever part of it reached the
\* caller, is neither zeroed nor counted in the offset
C12_FaultReturnsEFAULT ==
    [][ (h'.faulted /\ ~h.faulted) =>
            /\ pc' = "returned"
            /\ ret' = 0 - EFAULT
            /\ mem' = mem
            /\ pos' = pos
            /\ pos' = h.pos0 + result'
            /\ h'.zeroed = pos'
            /\ Len(buf') - result' < ChunkLen(pos', size')
      ]_vars

\* C12 witness: a call faulted inside its second chunk, the first byte of
\* that chunk delivered and still in the ring
C12_FaultAfterChunk ==
    /\ Returned
    /\ h.faulted
    /\ result > 0
    /\ Len(buf) = result + 1
    /\ size > 1
    /\ ret = 0 - EFAULT
    /\ mem[pnum][pos % PAGE_SIZE] # 0
    /\ buf[Len(buf)] = <<pnum, pos % PAGE_SIZE, mem[pnum][pos % PAGE_SIZE]>>

\* C13: a read of size 0 returns 0 at once in either mode, wherever the
\* producer is: no wait, no copy, offset unchanged
C13_ZeroLength ==
    (InCall /\ h.size0 = 0) =>
        /\ pc = "returned"
        /\ ret = 0
        /\ pos = h.pos0
        /\ buf = <<>>
        /\ h.ncopies = 0
        /\ h.nsamples = 1
        /\ ~h.faulted

\* C13 witness: a blocking read of size 0 returned although the cursor was
\* off the producer page and data was there to copy
C13_ZeroLengthBlocking ==
    /\ Returned
    /\ h.size0 = 0
    /\ ~nonblock
    /\ pnum # gp_cnt
    /\ pos > 0

\* C17 as stated: no copy sub-step compares against a sample of the counter
\* taken before the previous copy sub-step
C17_FreshEveryCopy == ~h.stale

\* C17 amended: the counter is read on entry and on every turn of the wait
\* loop; the copy sub-steps that follow a sample reuse it, at most one per
\* page from the cursor to the sampled page
C17_FreshEveryWait ==
    InCall =>
        /\ h.sincesample = 0 => pnum = h.psample
        /\ h.sincesample <= (gp_cnt + VBI_DMA_PAGES - h.psample) % VBI_DMA_PAGES
        /\ h.stale => h.ncopies >= 2
        /\ h.nsamples >= 2 => ~nonblock

\* C17 witness: two copy sub-steps were taken on the entry sample
C17_TwoCopiesOneSample ==
    /\ Returned
    /\ h.stale
    /\ h.nsamples = 1
    /\ h.ncopies = 2
    /\ ~nonblock

\* C14: the start page the reading session uses is the one recorded when it
\* was opened, whatever other file handles were opened or released since
C14_OwnCursor ==
    /\ Opened => AddMod(initial_page, 0, VBI_DMA_PAGES) = StartPage
    /\ InCall =>
          h.pnum0 = (StartPage + ((h.pos0 % VBI_DMA_SIZE) \div PAGE_SIZE))
                        % VBI_DMA_PAGES

\* C15: when probe fails because a capture page could not be allocated it
\* returns -ENOMEM and no page frame of the ring is left allocated
C15_NoPartialRing ==
    (card.stage = "failed" /\ card.i < VBI_DMA_PAGES /\ card.risc_phy # 0) =>
        /\ card.err = 0 - ENOMEM
        /\ card.live = {}

RECURSIVE InstrStarts(_, _)
\* where the instructions of a program start, decoding from word k on
InstrStarts(prog, k) ==
    IF k > Len(prog) THEN <<>>
    ELSE <<k>> \o InstrStarts(prog, k + InstrWords(prog[k]))

\* the instruction buffer holds the program
Built == card.prog # <<>>

\* where the instructions of the program in the buffer start
Starts == InstrStarts(card.prog, 1)

\* the n-th instruction word of the program in the buffer, from 1, given
\* where its instructions start
Instr(st, n) == card.prog[st[n]]

\* the operand word of the n-th instruction
Operand(st, n) == card.prog[st[n] + 1]

\* C16: the program is one Sync, two Writes for each of the N pages, one
\* Jump, 1 + 2N + 1 instructions, and the Jump's operand is the last word
C16_InstructionCount ==
    Built =>
        LET st == Starts
        IN  /\ Len(st) = 1 + 2 * VBI_DMA_PAGES + 1
            /\ Opcode(Instr(st, 1)) = SyncOp
            /\ \A n \in 2 .. (2 * VBI_DMA_PAGES + 1) : Opcode(Instr(st, n)) = WriteOp
            /\ Opcode(Instr(st, 2 * VBI_DMA_PAGES + 2)) = JumpOp
            /\ st[2 * VBI_DMA_PAGES + 2] + 1 = Len(card.prog)

\* C16 happens: the program was just built for a buffer at the higher base
C16_ProgramBuilt ==
    /\ card.stage = "ioremap"
    /\ Built
    /\ card.risc_phy = 131072
    /\ Len(card.prog) = 4 * VBI_DMA_PAGES + 3

\* the n-th Write of the program, from 1
WriteNo(st, n) == Instr(st, n + 1)

\* C18 as stated: the interrupt bit is on every IrqPeriod-th Write
C18_IrqEveryPeriodWrites ==
    Built =>
        LET st == Starts
        IN  \A n \in 1 .. (2 * VBI_DMA_PAGES) :
                IrqBit(WriteNo(st, n)) = 1 <=> n % IrqPeriod = 0

\* C18: the counter advances once per page and the interrupt bit is on the
\* second Write of every IrqPeriod-th page, one Write in 2 * IrqPeriod
C18_IrqEveryPeriodPages ==
    Built =>
        LET st == Starts
        IN  /\ \A n \in 1 .. (2 * VBI_DMA_PAGES) :
                  IrqBit(WriteNo(st, n)) = 1 <=> n % (2 * IrqPeriod) = 0
            /\ \A i \in Pages :
                  /\ IrqBit(WriteNo(st, 2 * i + 1)) = 0
                  /\ IrqBit(WriteNo(st, 2 * i + 2)) = 1 <=> (i + 1) % IrqPeriod = 0

\* C18 happens: the program is built and its last Write raises the interrupt
C18_IrqMarked ==
    /\ Built
    /\ IrqBit(WriteNo(Starts, 2 * VBI_DMA_PAGES)) = 1
    /\ IrqBit(WriteNo(Starts, 2 * VBI_DMA_PAGES - 2)) = 0

\* the bytes a Write instruction and its operand cover
Covered(w, arg) == Val(arg) .. (Val(arg) + WriteLen(w) - 1)

\* every page frame of the ring is still allocated
RingLive == \A p \in Pages : card.pg[p] \in card.live

\* word of the program where the Jump stands
JumpAt == 4 * VBI_DMA_PAGES + 2

\* C19: page i gets two Writes of CLUSTER_BUF_SIZE bytes, to pgvec_phy[i]
\* and pgvec_phy[i] + CLUSTER_BUF_SIZE, which cover the page exactly once;
\* when the device reaches the Jump every page of the ring has been filled
C19_TwoWritesPerPage ==
    Built =>
        LET st == Starts
        IN  /\ \A i \in Pages :
                  LET w1 == WriteNo(st, 2 * i + 1)
                      w2 == WriteNo(st, 2 * i + 2)
                      a1 == Operand(st, 2 * i + 2)
                      a2 == Operand(st, 2 * i + 3)
                  IN  /\ WriteLen(w1) = CLUSTER_BUF_SIZE
                      /\ WriteLen(w2) = CLUSTER_BUF_SIZE
                      /\ Val(a1) = card.phy[i]
                      /\ Val(a2) = card.phy[i] + CLUSTER_BUF_SIZE
                      /\ Covered(w1, a1) \cap Covered(w2, a2) = {}
                      /\ Covered(w1, a1) \cup Covered(w2, a2)
                             = card.phy[i] .. (card.phy[i] + PAGE_SIZE - 1)
            /\ (card.dma /\ RingLive /\ card.ip = JumpAt) =>
                  /\ \A p \in Pages : \A o \in Offsets : mem[p][o] = Sample(p, o)
                  /\ ~card.wild

\* C19 happens: a ring of scattered frames, filled by one pass
C19_ScatteredRingFilled ==
    /\ card.dma
    /\ RingLive
    /\ card.ip = JumpAt
    /\ card.phy[1] # card.phy[0] + PAGE_SIZE
    /\ card.phy[VBI_DMA_PAGES - 1] < card.phy[0]
    /\ mem[VBI_DMA_PAGES - 1][PAGE_SIZE - 1] # 0

\* the page whose Write, or whose turn, is next at word ip of the program
NextPageAt(ip) ==
    IF ip < 2 \/ ip >= JumpAt THEN 0 ELSE (ip - 2) \div 4

\* C20: only the second Write of page N-1 resets the counter, every other
\* second Write increments it, the Jump goes to the first Write, the Sync
\* runs once, and the counter is the index of the next page, below N
C20_LoopsInOrder ==
    Built =>
        LET st == Starts
        IN  /\ \A i \in Pages :
                  /\ CntCtl(WriteNo(st, 2 * i + 1)) = 0
                  /\ CntCtl(WriteNo(st, 2 * i + 2))
                         = IF i = VBI_DMA_PAGES - 1 THEN 3 ELSE 1
            /\ Operand(st, 2 * VBI_DMA_PAGES + 2) = U32Add(U32(card.risc_phy), 4)
            /\ (card.ip > 0 /\ card.risc) =>
                  /\ card.ip \in { st[n] : n \in 1 .. (2 * VBI_DMA_PAGES + 2) }
                  /\ gpcnt \in 0 .. (VBI_DMA_PAGES - 1)
                  /\ gpcnt = NextPageAt(card.ip)
                  /\ card.ip = 1 =>
                         \A p \in Pages : \A o \in Offsets : mem[p][o] = 0

\* C20 happens: the device is back at the first Write after a whole pass
C20_SecondPass ==
    /\ card.dma
    /\ card.ip = 2
    /\ gpcnt = 0
    /\ RingLive
    /\ mem[VBI_DMA_PAGES - 1][PAGE_SIZE - 1] # 0

\* some capture page has been freed
PagesFreed == \E p \in Pages : card.pg[p] # 0 /\ card.pg[p] \notin card.live

\* C21: once a capture page has been freed the device's DMA is stopped, on
\* removal and on every error path of probe
C21_StoppedBeforeFree == PagesFreed => ~card.dma

\* C23: the page index of a read lies in 0 .. N-1 for every offset and every
\* start page an open recorded; when the counter was 0 at open, initial_page
\* is 2^32 - 1 and the index is the page congruent to N - 1 plus the offset's
\* page
C23_PageIndexInRange ==
    Opened =>
        /\ \A p \in 0 .. (MaxPos + VBI_DMA_SIZE) :
              /\ PageIndex(initial_page, p) \in Pages
              /\ h.rawOpen = 0 =>
                    PageIndex(initial_page, p)
                        = (VBI_DMA_PAGES - 1 + ((p % VBI_DMA_SIZE) \div PAGE_SIZE))
                              % VBI_DMA_PAGES
        /\ h.rawOpen = 0 => initial_page = <<LIMB - 1, LIMB - 1>>
        /\ InCall => pnum \in Pages

\* C23 happens: opened at counter 0, the read copied page N-1 and moved on
\* to page 0
C23_WrappedStartPage ==
    /\ InCall
    /\ initial_page = <<LIMB - 1, LIMB - 1>>
    /\ h.pnum0 = VBI_DMA_PAGES - 1
    /\ h.ncopies >= 1
    /\ pos = PAGE_SIZE
    /\ pnum = 0

\* C24: what cx88sdr_make_risc_instructions has stored never reaches past
\* risc_inst_buff_size, and in the end it is one Sync word, 2N Writes and a
\* Jump of two words each, 4 bytes a word
C24_FitsBuffer ==
    emit.at \in {"sync", "page", "jump", "done"} =>
        /\ emit.pp <= emit.size
        /\ emit.at = "done" =>
              emit.pp = WORD * (1 + 2 * (2 * BuildPages(emit.page_shift)) + 2)

\* C24 happens: the program of the 4 KiB-page build is stored, less than a
\* page short of the end of the buffer
C24_StoredWithSlack ==
    /\ emit.at = "done"
    /\ emit.page_shift = 12
    /\ emit.i = BuildPages(12)
    /\ emit.pp > 0
    /\ emit.size - emit.pp < 2 ^ 12

\* the program and the tables are those probe wrote
SetupWritten(c) ==
    /\ c.prog = MakeRisc(c.phy, c.risc_phy)
    /\ Len(c.cdt) = CLUSTER_BUF_NUM
    /\ \A k \in 1 .. CLUSTER_BUF_NUM :
          c.cdt[k] = CLUSTER_BUFFER_BASE + (k - 1) * CLUSTER_BUF_SIZE
    /\ c.cmds = c.risc_phy
    /\ c.sram

\* C22: when a step enables DMA the program, the descriptor table and CMDS
\* are completely written, and no step taken while DMA is enabled changes
\* them
C22_WrittenOnceBeforeStart ==
    [][ /\ (~card.dma /\ card'.dma) => SetupWritten(card')
        /\ card.dma =>
              /\ card'.prog = card.prog
              /\ card'.cdt = card.cdt
              /\ card'.cmds = card.cmds ]_vars

\* C22 happens: with DMA running the gain was changed and a session, the
\* second of its file handle, has read data
C22_UsedWhileRunning ==
    /\ card.dma
    /\ SetupWritten(card)
    /\ card.ctrl.gain # InitialCtrl.gain
    /\ Returned
    /\ h.consumed > 0
    /\ h.sessions = 2
    /\ card.intmsk = 1

====
